---- MODULE Spec2Model ----
(***************************************************************************)
(* Builtin-argument validation of the environment evaluator (package eval). *)
(*                                                                         *)
(* Two checkers are modelled from the source:                              *)
(*   - schema-versus-schema (validateSchemaType / validateSchemaArray /    *)
(*     validateSchemaObject), and                                          *)
(*   - value-versus-schema (validateValue / validateElement / validateType *)
(*     and the type-specific clauses),                                     *)
(* together with the blame locations (validationLoc) and the diagnostics   *)
(* they emit through validationErrorf.                                     *)
(*                                                                         *)
(* Every validation function returns a record [ok, diags]: the Go result   *)
(* and the diagnostics appended to the evaluation context, in order.       *)
(***************************************************************************)
EXTENDS Integers, Sequences, FiniteSets, TLC

VARIABLES pc, call, result

vars == <<pc, call, result>>

(***************************************************************************)
(* Bounds of the model.                                                    *)
(***************************************************************************)
\* Number values range over 0..MaxNum.
MaxNum == 4
\* Numeric clauses of a schema (minimum, maximum, ...) range over 1..MaxBound.
MaxBound == 3
\* prefixItems lists have at most MaxPrefix entries.
MaxPrefix == 2
\* Array values have at most MaxElems elements.
MaxElems == 2
\* A blame location is followed through at most MaxDescents descents.
MaxDescents == 3
\* Descents by index use the indices 0..MaxIndex.
MaxIndex == 2
\* Chains of access expressions have at most MaxChain links.
MaxChain == 3

(***************************************************************************)
(* Small helpers.                                                          *)
(***************************************************************************)
Min(a, b) == IF a < b THEN a ELSE b

\* The entries of sequence ord that are in set S, in ord's order.
Restrict(ord, S) ==
    LET In(k) == k \in S IN SelectSeq(ord, In)

\* The result of a check that passed, and of one that failed silently.
Ok == [ok |-> TRUE, diags |-> <<>>]

Fail == [ok |-> FALSE, diags |-> <<>>]

\* allOk = allOk && ok, after ok has been computed: both operands run.
And(r1, r2) == [ok |-> r1.ok /\ r2.ok, diags |-> r1.diags \o r2.diags]

RECURSIVE AllOf(_)
AllOf(rs) == IF Len(rs) = 0 THEN Ok ELSE And(Head(rs), AllOf(Tail(rs)))

(***************************************************************************)
(* Schemas.  A *schema.Schema is nil or points to a struct.  The struct   *)
(* is a record of all its clauses; k tells the Always and Never schemas    *)
(* (the struct's two flags) from one that sets neither.  Optional clauses  *)
(* are <<>> (absent) or <<m>> (present); Properties and DependentRequired  *)
(* are functions from keys.                                                *)
(***************************************************************************)
NilSchema == [k |-> "nil"]

Typed(t) ==
    [k |-> "typed", Type |-> t, Const |-> <<>>, Enum |-> <<>>,
     MultipleOf |-> <<>>, Minimum |-> <<>>, ExclusiveMinimum |-> <<>>,
     Maximum |-> <<>>, ExclusiveMaximum |-> <<>>,
     MinLength |-> <<>>, MaxLength |-> <<>>, Pattern |-> <<>>,
     MinItems |-> <<>>, MaxItems |-> <<>>,
     PrefixItems |-> <<>>, Items |-> NilSchema,
     MinProperties |-> <<>>, MaxProperties |-> <<>>,
     Properties |-> <<>>, AdditionalProperties |-> NilSchema,
     Required |-> <<>>, DependentRequired |-> <<>>]

AlwaysSchema == [Typed("") EXCEPT !.k = "always"]

NeverSchema == [Typed("") EXCEPT !.k = "never"]

\* s.Never, for a non-nil s.
IsNever(s) == s.k = "never"

\* s.Type, for a non-nil s: the empty string when s sets no type.
TypeOf(s) == IF s.k = "nil" THEN "" ELSE s.Type

\* Mutant: only the nil schema counts as Always.
isAny_NilOnly(s) == s.k = "nil"

\* isAny returns true if a schema is the Always schema.
isAny(s) == s.k = "nil" \/ s.k = "always"

(***************************************************************************)
(* The expression graph: the expressions that define the values under      *)
(* validation.  List and object literals capture their children; every     *)
(* other variant (here a symbol) does not.                                 *)
(***************************************************************************)
Exprs ==
    {"lit", "list", "list_0", "list_1", "list_1_a",
     "obj", "obj_a", "obj_b", "obj_b_0", "sym"}

ExprRepr(e) ==
    CASE e = "list" -> [kind |-> "list", elements |-> <<"list_0", "list_1">>]
      [] e = "list_1" -> [kind |-> "object", properties |-> [k \in {"a"} |-> "list_1_a"]]
      [] e = "obj" -> [kind |-> "object",
                       properties |-> [k \in {"a", "b"} |-> IF k = "a" THEN "obj_a" ELSE "obj_b"]]
      [] e = "obj_b" -> [kind |-> "list", elements |-> <<"obj_b_0">>]
      [] e = "sym" -> [kind |-> "symbol"]
      [] OTHER -> [kind |-> "literal"]

(***************************************************************************)
(* Blame locations.                                                        *)
(***************************************************************************)
validationLoc(x) == [x |-> x, path |-> "", prefix |-> FALSE]

\* joinKey(path, k): the path of property k below path.
joinKey(path, k) == path \o "." \o k

\* Mutant: the descent into a list literal keeps the outer path.
index_KeepPath(l, i) ==
    LET r == ExprRepr(l.x) IN
    IF r.kind = "list" /\ i < Len(r.elements)
    THEN [x |-> r.elements[i + 1], path |-> l.path \o "[" \o ToString(i) \o "]",
          prefix |-> FALSE]
    ELSE [x |-> l.x, path |-> l.path \o "[" \o ToString(i) \o "]", prefix |-> TRUE]

index(l, i) ==
    LET r == ExprRepr(l.x) IN
    IF r.kind = "list" /\ i < Len(r.elements)
    THEN [x |-> r.elements[i + 1], path |-> "[" \o ToString(i) \o "]", prefix |-> FALSE]
    ELSE [x |-> l.x, path |-> l.path \o "[" \o ToString(i) \o "]", prefix |-> TRUE]

property(l, k) ==
    LET r == ExprRepr(l.x) IN
    IF r.kind = "object" /\ k \in DOMAIN r.properties
    THEN [x |-> r.properties[k], path |-> joinKey("", k), prefix |-> FALSE]
    ELSE [x |-> l.x, path |-> joinKey(l.path, k), prefix |-> TRUE]

\* The diagnostic e.errorf records: the syntax node blamed and the message.
Diag(loc, msg) ==
    [at |-> loc.x, msg |-> IF loc.prefix THEN loc.path \o ": " \o msg ELSE msg]

validationErrorf(loc, msg) == [ok |-> FALSE, diags |-> <<Diag(loc, msg)>>]

typeError(loc, expected, got) ==
    validationErrorf(loc, "expected " \o expected \o ", got " \o got)

checkType(actual, accept, loc) ==
    IF actual # TypeOf(accept) THEN typeError(loc, TypeOf(accept), actual) ELSE Ok

(***************************************************************************)
(* Schema-versus-schema validation.  ord is the order in which this run    *)
(* iterates Go maps (Properties, DependentRequired): Go leaves it          *)
(* unspecified, so the caller draws it.                                    *)
(***************************************************************************)
\* Mutant: the tail comparison runs for every items schema that is present.
tailCompared_Present(x) == x.Items.k # "nil"

\* The tail comparison of validateSchemaArray runs under this condition.
tailCompared(x) == x.Items.k # "nil" /\ ~IsNever(x.Items)

\* Mutant: the required lists are compared when additionalProperties is the
\* Never schema instead of when it is absent.
requiredCompared_Never(x) ==
    x.AdditionalProperties.k # "nil" /\ IsNever(x.AdditionalProperties)

\* The branch of validateSchemaObject that compares the required lists.
requiredCompared(x) == x.AdditionalProperties.k = "nil"

\* Mutant: the Never test of the additionalProperties branch is inverted.
additionalCompared_Inverted(x) ==
    x.AdditionalProperties.k # "nil" /\ IsNever(x.AdditionalProperties)

\* The branch of validateSchemaObject that compares additionalProperties.
additionalCompared(x) ==
    x.AdditionalProperties.k # "nil" /\ ~IsNever(x.AdditionalProperties)

\* checkRequired, the closure of validateSchemaObject: xreq is the set of
\* keys x requires.
RECURSIVE checkRequired(_, _, _)
checkRequired(ra, xreq, loc) ==
    IF Len(ra) = 0 THEN Ok
    ELSE And(IF Head(ra) \notin xreq
             THEN validationErrorf(property(loc, Head(ra)), "missing required property")
             ELSE Ok,
             checkRequired(Tail(ra), xreq, loc))

RECURSIVE validateSchemaType(_, _, _, _)
RECURSIVE validateSchemaArray(_, _, _, _)
RECURSIVE validateSchemaObject(_, _, _, _)

\* Mutant: the Always test of the input runs before the Never test of the
\* target.
validateSchemaType_InputFirst(x, accept, loc, ord) ==
    IF isAny(accept) THEN Ok
    ELSE IF isAny(x) THEN Ok
    ELSE IF IsNever(accept) THEN Fail
    ELSE LET ct == checkType(TypeOf(x), accept, loc) IN
         IF ~ct.ok THEN ct
         ELSE IF TypeOf(x) = "array" THEN validateSchemaArray(x, accept, loc, ord)
         ELSE IF TypeOf(x) = "object" THEN validateSchemaObject(x, accept, loc, ord)
         ELSE Ok

validateSchemaType(x, accept, loc, ord) ==
    IF isAny(accept) THEN Ok
    ELSE IF IsNever(accept) THEN Fail
    ELSE IF isAny(x) THEN Ok
    ELSE LET ct == checkType(TypeOf(x), accept, loc) IN
         IF ~ct.ok THEN ct
         ELSE IF TypeOf(x) = "array" THEN validateSchemaArray(x, accept, loc, ord)
         ELSE IF TypeOf(x) = "object" THEN validateSchemaObject(x, accept, loc, ord)
         ELSE Ok

validateSchemaArray(x, accept, loc, ord) ==
    LET xp == x.PrefixItems
        ap == accept.PrefixItems
        n == Min(Len(xp), Len(ap))
        common == [i \in 1..n |->
                     validateSchemaType(xp[i], ap[i], index(loc, i - 1), ord)]
        surplusX == [j \in 1..(Len(xp) - n) |->
                       validateSchemaType(xp[n + j], accept.Items, index(loc, n + j - 1), ord)]
        surplusA == [j \in 1..(Len(ap) - n) |->
                       validateSchemaType(x.Items, ap[n + j], index(loc, n + j - 1), ord)]
        tail == IF tailCompared(x)
                THEN validateSchemaType(x.Items, accept.Items, loc, ord)
                ELSE Ok
    IN And(And(AllOf(common),
               IF Len(xp) > n THEN AllOf(surplusX) ELSE AllOf(surplusA)),
           tail)

validateSchemaObject(x, accept, loc, ord) ==
    LET names == Restrict(ord, DOMAIN x.Properties)
        props == [i \in 1..Len(names) |->
                    IF names[i] \in DOMAIN accept.Properties
                    THEN validateSchemaType(x.Properties[names[i]], accept.Properties[names[i]],
                                            property(loc, names[i]), ord)
                    ELSE validateSchemaType(x.Properties[names[i]], accept.AdditionalProperties,
                                            property(loc, names[i]), ord)]
        xreq == {x.Required[i] : i \in 1..Len(x.Required)}
        deps == Restrict(ord, DOMAIN accept.DependentRequired)
        dependent == [i \in 1..Len(deps) |->
                        IF deps[i] \in xreq
                        THEN checkRequired(accept.DependentRequired[deps[i]], xreq, loc)
                        ELSE Ok]
        rest == IF requiredCompared(x)
                THEN And(checkRequired(accept.Required, xreq, loc), AllOf(dependent))
                ELSE IF additionalCompared(x)
                THEN validateSchemaType(x.AdditionalProperties, accept.AdditionalProperties,
                                        loc, ord)
                ELSE Ok
    IN And(AllOf(props), rest)

(***************************************************************************)
(* Values.  A value is [repr, unknown, schema, def]: its concrete          *)
(* representation, the unknown flag, its declared schema and the           *)
(* expression that defines it.  A representation, like a JSON constant of  *)
(* a schema, is tagged by t: null, bool, number (a json.Number, kept in    *)
(* its lexical form), string, array (elems) or object (props).             *)
(***************************************************************************)
\* The keys of the model, in sorted order.
SortedKeys == <<"a", "b">>

\* v.keys(): the keys of an object value, in order.
keys(v) == Restrict(SortedKeys, DOMAIN v.repr.props)

RECURSIVE JoinStrings(_, _)
JoinStrings(ss, sep) ==
    IF Len(ss) = 0 THEN ""
    ELSE IF Len(ss) = 1 THEN ss[1]
    ELSE ss[1] \o sep \o JoinStrings(Tail(ss), sep)

\* jsonRepr returns the JSON string representation of the given constant.
RECURSIVE jsonRepr(_)
jsonRepr(c) ==
    CASE c.t = "null" -> "null"
      [] c.t = "bool" -> IF c.b THEN "true" ELSE "false"
      [] c.t = "number" -> c.lex
      [] c.t = "string" -> "\"" \o c.s \o "\""
      [] c.t = "array" ->
           "[" \o JoinStrings([i \in 1..Len(c.elems) |-> jsonRepr(c.elems[i])], ",") \o "]"
      [] c.t = "object" ->
           LET ks == Restrict(SortedKeys, DOMAIN c.props) IN
           "{" \o JoinStrings([i \in 1..Len(ks) |->
                                 "\"" \o ks[i] \o "\":" \o jsonRepr(c.props[ks[i]])], ",") \o "}"

\* equalsConst returns true if the JSON value of v is equal to c.
RECURSIVE equalsConst(_, _)
equalsConst(v, c) ==
    CASE c.t = "null" -> v.repr.t = "null"
      [] c.t = "bool" -> v.repr.t = "bool" /\ v.repr.b = c.b
      [] c.t = "number" -> v.repr.t = "number" /\ v.repr.lex = c.lex
      [] c.t = "string" -> v.repr.t = "string" /\ v.repr.s = c.s
      [] c.t = "array" ->
           /\ v.repr.t = "array"
           /\ Len(v.repr.elems) = Len(c.elems)
           /\ \A i \in 1..Len(c.elems) : equalsConst(v.repr.elems[i], c.elems[i])
      [] c.t = "object" ->
           /\ v.repr.t = "object"
           /\ Cardinality(DOMAIN v.repr.props) = Cardinality(DOMAIN c.props)
           /\ \A k \in DOMAIN c.props :
                k \in DOMAIN v.repr.props /\ equalsConst(v.repr.props[k], c.props[k])
      [] OTHER -> FALSE

constError(loc, expected) == validationErrorf(loc, "expected " \o jsonRepr(expected))

enumError(loc, expected) ==
    IF Len(expected) = 1 THEN constError(loc, expected[1])
    ELSE validationErrorf(loc, "expected one of "
                                 \o jsonRepr([t |-> "array", elems |-> expected]))

\* accept.Const == nil: the schema has no const clause.
constIsNil(accept) == Len(accept.Const) = 0

validateConst(v, accept, loc) ==
    IF constIsNil(accept) \/ equalsConst(v, accept.Const[1]) THEN Ok
    ELSE constError(loc, accept.Const[1])

validateEnum(v, accept, loc) ==
    IF Len(accept.Enum) = 0 THEN Ok
    ELSE IF \E i \in 1..Len(accept.Enum) : equalsConst(v, accept.Enum[i]) THEN Ok
    ELSE enumError(loc, accept.Enum)

(***************************************************************************)
(* Numbers.  big.ParseFloat over the lexical forms of the model.           *)
(***************************************************************************)
ParseFloat(lex) ==
    IF lex = "2.0" THEN [ok |-> TRUE, n |-> 2]
    ELSE IF \E i \in 0..MaxNum : ToString(i) = lex
    THEN [ok |-> TRUE, n |-> CHOOSE i \in 0..MaxNum : ToString(i) = lex]
    ELSE [ok |-> FALSE, n |-> 0]

\* q.Quo(n, m); !q.IsInt(), for integral n and non-zero integral m.
notMultiple(n, m) == n % m # 0

\* The conditions under which validateNumber reports each bound, as the
\* source writes them with n.Cmp(m).
minimumReported(n, m) == n > m

exclusiveMinimumReported(n, m) == n >= m

maximumReported(n, m) == n < m

exclusiveMaximumReported(n, m) == n <= m

validateNumber(v, accept, loc) ==
    LET p == ParseFloat(v)
        n == p.n
    IN IF ~p.ok
       THEN validationErrorf(loc, "internal error: invalid number \"" \o v \o "\"")
       ELSE AllOf(<<
              IF Len(accept.MultipleOf) = 1 /\ notMultiple(n, accept.MultipleOf[1])
              THEN validationErrorf(loc, "expected a multiple of "
                                           \o ToString(accept.MultipleOf[1]))
              ELSE Ok,
              IF Len(accept.Minimum) = 1 /\ minimumReported(n, accept.Minimum[1])
              THEN validationErrorf(loc, "expected a number greater than or equal to "
                                           \o ToString(accept.Minimum[1]))
              ELSE Ok,
              IF Len(accept.ExclusiveMinimum) = 1
                 /\ exclusiveMinimumReported(n, accept.ExclusiveMinimum[1])
              THEN validationErrorf(loc, "expected a number greater than "
                                           \o ToString(accept.ExclusiveMinimum[1]))
              ELSE Ok,
              IF Len(accept.Maximum) = 1 /\ maximumReported(n, accept.Maximum[1])
              THEN validationErrorf(loc, "expected a number less than or equal to"
                                           \o ToString(accept.Maximum[1]))
              ELSE Ok,
              IF Len(accept.ExclusiveMaximum) = 1
                 /\ exclusiveMaximumReported(n, accept.ExclusiveMaximum[1])
              THEN validationErrorf(loc, "expected a number less than "
                                           \o ToString(accept.ExclusiveMaximum[1]))
              ELSE Ok >>)

(***************************************************************************)
(* Strings.  Patterns are compiled regular expressions; their matches are  *)
(* tabulated over the strings of the model.                                *)
(***************************************************************************)
\* The pattern "^a".
PatternA == "^a"

\* A pattern that does not compile.
PatternBad == "("

\* p.MatchString(v)
MatchString(p, v) == p = PatternA /\ v \in {"a", "ab"}

\* accept.Compile(): nil for a nil schema; an error when the schema's
\* pattern is not a regular expression.
CompileFails(accept) ==
    accept.k # "nil" /\ Len(accept.Pattern) = 1 /\ accept.Pattern[1] = PatternBad

validateString(v, accept, loc) ==
    AllOf(<<
      IF Len(accept.MinLength) = 1 /\ Len(v) < accept.MinLength[1]
      THEN validationErrorf(loc, "expected a string of at least length "
                                   \o ToString(accept.MinLength[1]))
      ELSE Ok,
      IF Len(accept.MaxLength) = 1 /\ Len(v) > accept.MaxLength[1]
      THEN validationErrorf(loc, "expected a string of at most length "
                                   \o ToString(accept.MaxLength[1]))
      ELSE Ok,
      IF Len(accept.Pattern) = 1 /\ ~MatchString(accept.Pattern[1], v)
      THEN validationErrorf(loc, "string must match the pattern \""
                                   \o accept.Pattern[1] \o "\"")
      ELSE Ok >>)

(***************************************************************************)
(* Value-versus-schema validation.                                         *)
(***************************************************************************)
\* The keys validateObject reports missing: those of accept.Required, then
\* those of the dependentRequired lists whose key is present, the lists
\* taken in map order.
RECURSIVE Flatten(_)
Flatten(ss) == IF Len(ss) = 0 THEN <<>> ELSE Head(ss) \o Flatten(Tail(ss))

\* Mutant: the dependentRequired lists are not consulted.
missingKeys_RequiredOnly(keySet, accept, ord) ==
    LET Absent(k) == k \notin keySet IN SelectSeq(accept.Required, Absent)

missingKeys(keySet, accept, ord) ==
    LET Absent(k) == k \notin keySet
        deps == Restrict(ord, DOMAIN accept.DependentRequired)
    IN SelectSeq(accept.Required, Absent)
       \o Flatten([i \in 1..Len(deps) |->
                     IF deps[i] \in keySet
                     THEN SelectSeq(accept.DependentRequired[deps[i]], Absent)
                     ELSE <<>>])

\* The location validateValue validates v at.
valueLoc(v, loc) == validationLoc(v.def)

RECURSIVE validateValue(_, _, _, _)
RECURSIVE validateElement(_, _, _, _)
RECURSIVE validateType(_, _, _, _)
RECURSIVE validateArray(_, _, _, _)
RECURSIVE validateObject(_, _, _, _)

validateValue(v, accept, loc, ord) == validateElement(v, accept, valueLoc(v, loc), ord)

\* Mutant: the const test runs before the unknown test.
validateElement_ConstFirst(v, accept, loc, ord) ==
    IF CompileFails(accept)
    THEN validationErrorf(loc, "internal error: invalid schema: bad pattern")
    ELSE IF isAny(accept) THEN Ok
    ELSE IF IsNever(accept) THEN Fail
    ELSE And(validateConst(v, accept, loc),
             IF v.unknown THEN validateSchemaType(v.schema, accept, loc, ord)
             ELSE And(validateEnum(v, accept, loc), validateType(v, accept, loc, ord)))

validateElement(v, accept, loc, ord) ==
    IF CompileFails(accept)
    THEN validationErrorf(loc, "internal error: invalid schema: bad pattern")
    ELSE IF isAny(accept) THEN Ok
    ELSE IF IsNever(accept) THEN Fail
    ELSE IF v.unknown THEN validateSchemaType(v.schema, accept, loc, ord)
    ELSE And(And(validateConst(v, accept, loc), validateEnum(v, accept, loc)),
             validateType(v, accept, loc, ord))

validateType(v, accept, loc, ord) ==
    LET t == v.repr.t
        actual == IF t = "bool" THEN "boolean" ELSE t
        ct == checkType(actual, accept, loc)
    IN IF ~ct.ok THEN ct
       ELSE CASE t = "number" -> validateNumber(v.repr.lex, accept, loc)
              [] t = "string" -> validateString(v.repr.s, accept, loc)
              [] t = "array" -> validateArray(v.repr.elems, accept, loc, ord)
              [] t = "object" -> validateObject(v, accept, loc, ord)
              [] OTHER -> Ok

validateArray(v, accept, loc, ord) ==
    LET elems == [i \in 1..Len(v) |->
                    IF i - 1 < Len(accept.PrefixItems)
                    THEN validateValue(v[i], accept.PrefixItems[i], index(loc, i - 1), ord)
                    ELSE validateValue(v[i], accept.Items, index(loc, i - 1), ord)]
    IN AllOf(<<
         IF Len(accept.MinItems) = 1 /\ Len(v) < accept.MinItems[1]
         THEN validationErrorf(loc, "expected an array with at least "
                                      \o ToString(accept.MinItems[1]) \o " items")
         ELSE Ok,
         IF Len(accept.MaxItems) = 1 /\ Len(v) > accept.MaxItems[1]
         THEN validationErrorf(loc, "expected an array with at most "
                                      \o ToString(accept.MaxItems[1]) \o " items")
         ELSE Ok,
         AllOf(elems) >>)

validateObject(v, accept, loc, ord) ==
    LET ks == keys(v)
        keySet == {ks[i] : i \in 1..Len(ks)}
        perKey == [i \in 1..Len(ks) |->
                     IF ks[i] \in DOMAIN accept.Properties
                     THEN validateValue(v.repr.props[ks[i]], accept.Properties[ks[i]],
                                        property(loc, ks[i]), ord)
                     ELSE validateValue(v.repr.props[ks[i]], accept.AdditionalProperties,
                                        property(loc, ks[i]), ord)]
        missing == missingKeys(keySet, accept, ord)
    IN AllOf(<<
         IF Len(accept.MinProperties) = 1 /\ Len(ks) < accept.MinProperties[1]
         THEN validationErrorf(loc, "expected an object with at least "
                                      \o ToString(accept.MinProperties[1]) \o " properties")
         ELSE Ok,
         IF Len(accept.MaxProperties) = 1 /\ Len(ks) > accept.MaxProperties[1]
         THEN validationErrorf(loc, "expected an object with at most "
                                      \o ToString(accept.MaxProperties[1]) \o " properties")
         ELSE Ok,
         AllOf(perKey),
         IF Len(missing) # 0
         THEN validationErrorf(loc, "missing required properties: "
                                      \o JoinStrings(missing, ", "))
         ELSE Ok >>)

(***************************************************************************)
(* The inputs of the model: the schemas, values and locations the calls    *)
(* are drawn from.                                                         *)
(***************************************************************************)
\* An optional clause over 1..n.
Opt(n) == {<<>>} \cup {<<m>> : m \in 1..n}

\* Sequences over S of length at most n.
SeqsUpTo(S, n) == UNION {[1..m -> S] : m \in 0..n}

\* The orders in which a run may iterate a Go map over the keys.
MapOrders == {<<"a", "b">>, <<"b", "a">>}

Str == Typed("string")

Num == Typed("number")

ArrStr == [Typed("array") EXCEPT !.Items = Str]

NumLex == {ToString(i) : i \in 0..MaxNum} \cup {"2.0"}

NumberSchemas ==
    {[Num EXCEPT !.MultipleOf = mo, !.Minimum = lo, !.ExclusiveMinimum = xlo,
                 !.Maximum = hi, !.ExclusiveMaximum = xhi] :
        mo \in {<<>>, <<2>>}, lo \in Opt(MaxBound), xlo \in Opt(MaxBound),
        hi \in Opt(MaxBound), xhi \in Opt(MaxBound)}

LeafSchemas == {NilSchema, AlwaysSchema, NeverSchema, Str, Num}

PrefixSchemas == {NeverSchema, Str, Num}

\* Array schemas as the schema-versus-schema checker reads them.
ArraySchemas ==
    {[Typed("array") EXCEPT !.PrefixItems = p, !.Items = it] :
        p \in SeqsUpTo(PrefixSchemas, MaxPrefix), it \in LeafSchemas \cup {ArrStr}}

PropertyMaps ==
    {<<>>, [k \in {"a"} |-> Str], [k \in {"a"} |-> Num],
     [k \in {"a", "b"} |-> IF k = "a" THEN Str ELSE Num]}

RequiredLists == {<<>>, <<"a">>, <<"a", "b">>}

DependentMaps ==
    {<<>>, [k \in {"a"} |-> <<"b">>],
     [k \in {"a", "b"} |-> IF k = "a" THEN <<"b">> ELSE <<"a">>]}

\* Object schemas on the input side of the schema-versus-schema checker.
ObjectInputs ==
    {[Typed("object") EXCEPT !.Properties = ps, !.AdditionalProperties = ap, !.Required = rq] :
        ps \in PropertyMaps, ap \in {NilSchema, AlwaysSchema, NeverSchema, Str},
        rq \in RequiredLists}

\* Object schemas on the target side.
ObjectTargets ==
    {[o EXCEPT !.DependentRequired = dr] : o \in ObjectInputs, dr \in DependentMaps}

SchemaPairs ==
    (LeafSchemas \X LeafSchemas)
    \cup (ArraySchemas \X ArraySchemas)
    \cup (ObjectInputs \X ObjectTargets)
    \cup ({ArrStr, Typed("object"), NeverSchema} \X {ArrStr, Typed("object"), Str})

(***************************************************************************)
(* Values and the schemas they are validated against.                      *)
(***************************************************************************)
NullR == [t |-> "null"]

BoolR(b) == [t |-> "bool", b |-> b]

NumR(lex) == [t |-> "number", lex |-> lex]

StrR(s) == [t |-> "string", s |-> s]

ArrR(elems) == [t |-> "array", elems |-> elems]

ObjR(props) == [t |-> "object", props |-> props]

\* A known value with representation r, defined by expression d.
Known(r, d) == [repr |-> r, unknown |-> FALSE, schema |-> AlwaysSchema, def |-> d]

\* An unknown value of declared schema sc, defined by expression d.
Unknown(r, sc, d) == [repr |-> r, unknown |-> TRUE, schema |-> sc, def |-> d]

ScalarReprs ==
    {NullR, BoolR(TRUE), NumR("1"), NumR("3"), NumR("2.0"),
     StrR(""), StrR("a"), StrR("ab"), StrR("b")}

ScalarValues == {Known(r, "lit") : r \in ScalarReprs}

ElemReprs == {NumR("1"), StrR("b")}

\* Arrays defined by the list literal: element i is defined by the
\* literal's i-th child.
ListValues ==
    LET children == ExprRepr("list").elements IN
    {Known(ArrR([i \in 1..Len(rs) |-> Known(rs[i], children[i])]), "list") :
        rs \in SeqsUpTo(ElemReprs, Min(MaxElems, Len(children)))}

\* Arrays defined by a symbol: the elements are defined elsewhere, or by
\* the symbol itself.
SymElems ==
    {Known(r, d) : r \in ElemReprs, d \in {"lit", "sym"}} \cup {Unknown(NullR, Str, "lit")}

SymArrayValues == {Known(ArrR(es), "sym") : es \in SeqsUpTo(SymElems, MaxElems)}

KeySets == SUBSET {"a", "b"}

\* Objects over key set K: defined by the object literal (each property by
\* the literal's child) or by a symbol.
ObjectValuesOver(K) ==
    UNION {{Known(ObjR([k \in K |-> Known(rs[k], ExprRepr("obj").properties[k])]), "obj"),
            Known(ObjR([k \in K |-> Known(rs[k], "lit")]), "sym")} :
              rs \in [K -> ElemReprs]}

ObjectValues == UNION {ObjectValuesOver(K) : K \in KeySets}

UnknownValues ==
    {Unknown(r, sc, d) :
        r \in {NullR, StrR("b")},
        sc \in LeafSchemas \cup {ArrStr, [Typed("array") EXCEPT !.PrefixItems = <<Num, Str>>]},
        d \in {"list", "sym"}}

StringSchemas ==
    {[Str EXCEPT !.MinLength = lo, !.MaxLength = hi, !.Pattern = pt] :
        lo \in Opt(1), hi \in Opt(1), pt \in {<<>>, <<PatternA>>, <<PatternBad>>}}

ConstSchemas ==
    {[Typed(t) EXCEPT !.Const = c, !.Enum = en] :
        t \in {"null", "boolean", "number", "string"},
        c \in {<<>>, <<StrR("a")>>, <<NumR("1")>>, <<NumR("2")>>},
        en \in {<<>>, <<StrR("b")>>, <<StrR("a"), NumR("3"), NullR>>}}

BoundSchemas ==
    {[Num EXCEPT !.Minimum = lo, !.Maximum = hi] : lo \in Opt(MaxBound), hi \in Opt(MaxBound)}

ScalarAccepts ==
    StringSchemas \cup ConstSchemas \cup BoundSchemas
    \cup {NilSchema, AlwaysSchema, NeverSchema, Typed("array"), Typed("object")}

ArrayAccepts ==
    {[Typed("array") EXCEPT !.PrefixItems = p, !.Items = it, !.MinItems = lo, !.MaxItems = hi] :
        p \in SeqsUpTo(PrefixSchemas, MaxPrefix),
        it \in {NilSchema, NeverSchema, Str, [Num EXCEPT !.Minimum = <<2>>]},
        lo \in {<<>>, <<2>>}, hi \in {<<>>, <<1>>}}

ObjectAccepts ==
    {[o EXCEPT !.MinProperties = lo, !.MaxProperties = hi] :
        o \in ObjectTargets, lo \in {<<>>, <<2>>}, hi \in {<<>>, <<1>>}}

UnknownAccepts ==
    LeafSchemas \cup StringSchemas
    \cup {ArrStr, [Typed("array") EXCEPT !.PrefixItems = <<Str>>],
          [Str EXCEPT !.Const = <<StrR("a")>>], [Str EXCEPT !.Enum = <<StrR("a")>>]}

ValuePairs ==
    (ScalarValues \X ScalarAccepts)
    \cup ((ListValues \cup SymArrayValues) \X (ArrayAccepts \cup {AlwaysSchema, NeverSchema, Str}))
    \cup (ObjectValues \X (ObjectAccepts \cup {AlwaysSchema, NeverSchema, Str}))
    \cup (UnknownValues \X UnknownAccepts)

(***************************************************************************)
(* Export of expressions (expr.export).  An expr is a record of its        *)
(* representation, the range of its syntax node (<<>> when the node has    *)
(* none), its schema and its base value (<<>> when it has none).  A value  *)
(* is known here by its defining expression only.  Pointers, slices and    *)
(* maps of the exported record are <<>> when nil and <<content>> when set. *)
(***************************************************************************)
Pos(line, column, byte) == [Line |-> line, Column |-> column, Byte |-> byte]

ZeroPos == Pos(0, 0, 0)

\* The range of a syntax node on line n of file f.
SyntaxRange(f, n) == [Filename |-> f, Start |-> Pos(n, 1, 10 * n), End |-> Pos(n, 5, 10 * n + 4)]

newExpr(repr, rng, s, base) == [repr |-> repr, rng |-> rng, schema |-> s, base |-> base]

\* A value defined by expression x.
ValueOf(x) == [def |-> x]

defRange(x, environment) ==
    IF Len(x.rng) = 1
    THEN [Environment |-> x.rng[1].Filename,
          Begin |-> Pos(x.rng[1].Start.Line, x.rng[1].Start.Column, x.rng[1].Start.Byte),
          End |-> Pos(x.rng[1].End.Line, x.rng[1].End.Column, x.rng[1].End.Byte)]
    ELSE [Environment |-> environment, Begin |-> ZeroPos, End |-> ZeroPos]

\* Property accessors of the syntax: a name, or a subscript by a string or
\* by an integer.
PropertyName(n) == [kind |-> "name", Name |-> n]

SubscriptKey(s) == [kind |-> "subscript", index |-> "string", s |-> s]

SubscriptIndex(i) == [kind |-> "subscript", index |-> "int", i |-> i]

exportAccessor(accessor) ==
    CASE accessor.kind = "name" -> [Key |-> <<accessor.Name>>, Index |-> <<>>]
      [] accessor.kind = "subscript" /\ accessor.index = "string" ->
           [Key |-> <<accessor.s>>, Index |-> <<>>]
      [] accessor.kind = "subscript" /\ accessor.index = "int" ->
           [Key |-> <<>>, Index |-> <<accessor.i>>]

\* The zero environments.Expr.
ZeroExpr ==
    [Range |-> [Environment |-> "", Begin |-> ZeroPos, End |-> ZeroPos],
     Schema |-> NilSchema, Base |-> <<>>,
     Literal |-> <<>>, Interpolate |-> <<>>, Symbol |-> <<>>, Access |-> <<>>,
     Builtin |-> <<>>, List |-> <<>>, Object |-> <<>>]

\* The exported accessors of a property access: each with the range of the
\* expression that defines the value it reaches.
exportPropertyAccess(accessors, environment) ==
    [i \in 1..Len(accessors) |->
        [Accessor |-> exportAccessor(accessors[i].accessor),
         Value |-> defRange(accessors[i].value.def, environment)]]

\* schema.Tuple(...).Schema() and schema.Record(...).Schema().
schemaTuple(items) == [Typed("array") EXCEPT !.PrefixItems = items, !.Items = NeverSchema]

schemaRecord(props) ==
    [Typed("object") EXCEPT !.Properties = props, !.AdditionalProperties = NeverSchema]

BuiltinExpr(argSchema, arg) == <<[ArgSchema |-> argSchema, Arg |-> arg]>>

\* Mutant: the accessor of an outer access goes in front of the list.
appendAccessor_Prepend(accessors, accessor) == <<accessor>> \o accessors

\* ex.Access.Accessors = append(ex.Access.Accessors, accessor)
appendAccessor(accessors, accessor) == Append(accessors, accessor)

RECURSIVE export(_, _)
export(x, environment) ==
    LET base == IF Len(x.base) = 1 THEN <<export(x.base[1].def, environment)>> ELSE <<>>
        ex == [ZeroExpr EXCEPT !.Range = defRange(x, environment),
                               !.Schema = x.schema,
                               !.Base = base]
        repr == x.repr
    IN CASE repr.kind = "literal" ->
              IF repr.syntax.t \in {"boolean", "number", "string"}
              THEN [ex EXCEPT !.Literal = <<repr.syntax>>]
              ELSE ex
         [] repr.kind = "interpolate" ->
              [ex EXCEPT !.Interpolate =
                  <<[i \in 1..Len(repr.parts) |->
                       [Text |-> repr.parts[i].Text,
                        Value |-> IF Len(repr.parts[i].value) = 1
                                  THEN <<exportPropertyAccess(repr.parts[i].value[1], environment)>>
                                  ELSE <<>>]]>>]
         [] repr.kind = "symbol" ->
              [ex EXCEPT !.Symbol = <<exportPropertyAccess(repr.property, environment)>>]
         [] repr.kind = "access" ->
              LET accessor == exportAccessor(repr.accessor) IN
              IF repr.receiver.def.repr.kind = "access"
              THEN LET inner == export(repr.receiver.def, environment) IN
                   [inner EXCEPT !.Access =
                       <<[inner.Access[1] EXCEPT
                            !.Accessors = appendAccessor(inner.Access[1].Accessors, accessor)]>>]
              ELSE [ex EXCEPT !.Access =
                       <<[Receiver |-> defRange(repr.receiver.def, environment),
                          Accessors |-> <<accessor>>]>>]
         [] repr.kind = "join" ->
              [ex EXCEPT !.Builtin =
                  BuiltinExpr(schemaTuple(<<Str, ArrStr>>),
                              [ZeroExpr EXCEPT !.List =
                                  <<<<export(repr.delimiter, environment),
                                      export(repr.values, environment)>>>>])]
         [] repr.kind = "open" ->
              [ex EXCEPT !.Builtin =
                  BuiltinExpr(schemaRecord([k \in {"provider", "inputs"} |->
                                               IF k = "provider" THEN Str ELSE repr.inputSchema]),
                              [ZeroExpr EXCEPT !.Object =
                                  <<[k \in {"provider", "inputs"} |->
                                       IF k = "provider"
                                       THEN export(repr.provider, environment)
                                       ELSE export(repr.inputs, environment)]>>])]
         [] repr.kind = "secret" ->
              [ex EXCEPT !.Builtin = BuiltinExpr(AlwaysSchema, export(repr.value, environment))]
         [] repr.kind = "toBase64" ->
              [ex EXCEPT !.Builtin = BuiltinExpr(Str, export(repr.value, environment))]
         [] repr.kind = "toJSON" ->
              [ex EXCEPT !.Builtin = BuiltinExpr(AlwaysSchema, export(repr.value, environment))]
         [] repr.kind = "toString" ->
              [ex EXCEPT !.Builtin = BuiltinExpr(AlwaysSchema, export(repr.value, environment))]
         [] repr.kind = "list" ->
              [ex EXCEPT !.List =
                  <<[i \in 1..Len(repr.elements) |-> export(repr.elements[i], environment)]>>]
         [] repr.kind = "object" ->
              [ex EXCEPT !.Object =
                  <<[k \in DOMAIN repr.properties |-> export(repr.properties[k], environment)]>>]

(***************************************************************************)
(* The expressions that are exported.                                      *)
(***************************************************************************)
\* A literal on line n.
LiteralExpr(t, v, n, s) ==
    newExpr([kind |-> "literal", syntax |-> [t |-> t, v |-> v]], <<SyntaxRange("f", n)>>, s, <<>>)

StringLit == LiteralExpr("string", "a", 7, Str)

ObjectLit ==
    newExpr([kind |-> "object", properties |-> [k \in {"a"} |-> StringLit]],
            <<SyntaxRange("f", 8)>>, Typed("object"), <<>>)

\* An imported value that an expression overrides.
BaseValue ==
    ValueOf(newExpr([kind |-> "object", properties |-> [k \in {"b"} |-> StringLit]],
                    <<SyntaxRange("g", 9)>>, Typed("object"), <<>>))

SymbolExpr ==
    newExpr([kind |-> "symbol",
             property |-> <<[accessor |-> PropertyName("a"), value |-> ValueOf(ObjectLit)],
                            [accessor |-> SubscriptIndex(0), value |-> ValueOf(StringLit)]>>],
            <<SyntaxRange("f", 6)>>, NilSchema, <<>>)

BuiltinOf(kind, value, n) ==
    newExpr([kind |-> kind, value |-> value], <<SyntaxRange("f", n)>>, Str, <<>>)

\* The expressions at the bottom of a chain of accesses.
Receivers == {SymbolExpr, ObjectLit, BuiltinOf("secret", ObjectLit, 5)}

Accessors == {PropertyName("a"), SubscriptKey("b"), SubscriptIndex(0)}

\* What an access expression carries besides its receiver: whether its
\* syntax has a range, its schema, and its base value.
Links ==
    {[accessor |-> a, ranged |-> d[1], schema |-> d[2], base |-> d[3]] :
        a \in Accessors,
        d \in {<<TRUE, Str, <<>> >>, <<FALSE, Num, <<BaseValue>> >>,
                <<TRUE, NilSchema, <<BaseValue>> >>}}

\* The access expression that applies the accessors of links to r in order:
\* the last link is the outermost expression, on line Len(links).
RECURSIVE accessChain(_, _)
accessChain(r, links) ==
    IF Len(links) = 0 THEN r
    ELSE LET n == Len(links)
             l == links[n]
         IN newExpr([kind |-> "access",
                     receiver |-> ValueOf(accessChain(r, SubSeq(links, 1, n - 1))),
                     accessor |-> l.accessor],
                    IF l.ranged THEN <<SyntaxRange("f", n)>> ELSE <<>>,
                    l.schema, l.base)

AccessExprs ==
    {accessChain(r, links) : r \in Receivers, links \in SeqsUpTo(Links, MaxChain) \ {<<>>}}

ChainOfTwo ==
    accessChain(SymbolExpr,
                <<[accessor |-> PropertyName("a"), ranged |-> TRUE, schema |-> Str, base |-> <<>>],
                  [accessor |-> SubscriptIndex(0), ranged |-> TRUE, schema |-> Num, base |-> <<>>]>>)

InterpolateExpr ==
    newExpr([kind |-> "interpolate",
             parts |-> <<[Text |-> "x", value |-> <<>>],
                         [Text |-> "y",
                          value |-> <<<<[accessor |-> SubscriptKey("b"),
                                         value |-> ValueOf(StringLit)]>>>>]>>],
            <<SyntaxRange("f", 4)>>, Str, <<BaseValue>>)

ListLit ==
    newExpr([kind |-> "list", elements |-> <<StringLit, ChainOfTwo>>],
            <<>>, ArrStr, <<>>)

OtherExprs ==
    {StringLit, ObjectLit, SymbolExpr, InterpolateExpr, ListLit,
     LiteralExpr("null", "null", 3, Typed("null")),
     LiteralExpr("boolean", "true", 3, Typed("boolean")),
     LiteralExpr("number", "1", 3, Num),
     newExpr([kind |-> "join", delimiter |-> StringLit, values |-> ListLit],
             <<SyntaxRange("f", 2)>>, Str, <<>>),
     newExpr([kind |-> "open", provider |-> StringLit, inputs |-> ObjectLit,
              inputSchema |-> Typed("object")],
             <<SyntaxRange("f", 2)>>, AlwaysSchema, <<>>),
     BuiltinOf("secret", StringLit, 2), BuiltinOf("toBase64", ChainOfTwo, 2),
     BuiltinOf("toJSON", ObjectLit, 2), BuiltinOf("toString", ListLit, 2)}

ExportedExprs == AccessExprs \cup OtherExprs

Environments == {"env", "f"}

(***************************************************************************)
(* The calls.  A call is made from the idle state and leaves its inputs    *)
(* and its outcome in the state; Return forgets them.                      *)
(***************************************************************************)
NoCall == [op |-> "none"]

Init ==
    /\ pc = "idle"
    /\ call = NoCall
    /\ result = Ok

CallValidateNumber ==
    /\ pc = "idle"
    /\ \E v \in NumLex, accept \in NumberSchemas :
         /\ call' = [op |-> "validateNumber", v |-> v, accept |-> accept,
                     loc |-> validationLoc("lit")]
         /\ result' = validateNumber(v, accept, validationLoc("lit"))
    /\ pc' = "done"

CallValidateSchemaType ==
    /\ pc = "idle"
    /\ \E pair \in SchemaPairs, e \in {"list", "obj", "sym"}, ord \in MapOrders :
         /\ call' = [op |-> "validateSchemaType", x |-> pair[1], accept |-> pair[2],
                     loc |-> validationLoc(e), ord |-> ord]
         /\ result' = validateSchemaType(pair[1], pair[2], validationLoc(e), ord)
    /\ pc' = "done"

\* The descents a validation makes from a location: by index or by key.
Descents ==
    {[op |-> "index", i |-> i] : i \in 0..MaxIndex}
    \cup {[op |-> "property", k |-> k] : k \in {"a", "b", "c"}}

\* One descent from location l.
descend(l, d) == IF d.op = "index" THEN index(l, d.i) ELSE property(l, d.k)

\* The locations visited by the descents ds from l, l first.
RECURSIVE locations(_, _)
locations(l, ds) ==
    IF Len(ds) = 0 THEN <<l>> ELSE <<l>> \o locations(descend(l, Head(ds)), Tail(ds))

\* A chain of descents from validationLoc{x: e}, then an error reported at
\* the location reached.
CallDescend ==
    /\ pc = "idle"
    /\ \E e \in Exprs, ds \in SeqsUpTo(Descents, MaxDescents) :
         LET locs == locations(validationLoc(e), ds) IN
         /\ call' = [op |-> "descend", e |-> e, descents |-> ds, locs |-> locs]
         /\ result' = validationErrorf(locs[Len(locs)], "invalid")
    /\ pc' = "done"

CallExport ==
    /\ pc = "idle"
    /\ \E x \in ExportedExprs, environment \in Environments :
         /\ call' = [op |-> "export", x |-> x, environment |-> environment]
         /\ result' = [ok |-> TRUE, diags |-> <<>>, ex |-> export(x, environment)]
    /\ pc' = "done"

CallValidateValue ==
    /\ pc = "idle"
    /\ \E pair \in ValuePairs, ord \in MapOrders :
         /\ call' = [op |-> "validateValue", v |-> pair[1], accept |-> pair[2],
                     loc |-> validationLoc(pair[1].def), ord |-> ord]
         /\ result' = validateValue(pair[1], pair[2], validationLoc(pair[1].def), ord)
    /\ pc' = "done"

Return ==
    /\ pc = "done"
    /\ pc' = "idle"
    /\ call' = NoCall
    /\ result' = Ok

Next ==
    \/ CallValidateNumber
    \/ CallValidateSchemaType
    \/ CallValidateValue
    \/ CallDescend
    \/ CallExport
    \/ Return

Spec == Init /\ [][Next]_vars

(***************************************************************************)
(* Properties.                                                             *)
(***************************************************************************)
\* The schema is always: the Always schema, or no schema at all.
AlwaysLike(s) == s = NilSchema \/ s = AlwaysSchema

\* The messages of the diagnostics the call emitted.
Msgs == {result.diags[i].msg : i \in 1..Len(result.diags)}

NumberCall == pc = "done" /\ call.op = "validateNumber"

\* A bound clause c of the schema is violated by n under comparison Holds.
BoundViolated(c, n, Holds(_, _)) == Len(c) = 1 /\ ~Holds(n, c[1])

\* The message of bound clause c, when it is present.
BoundMsg(c, text) == IF Len(c) = 1 THEN text \o ToString(c[1]) ELSE text

GreaterEq(n, m) == n >= m

Greater(n, m) == n > m

LessEq(n, m) == n <= m

Less(n, m) == n < m

\* C1: for every number n and number schema, the minimum m clause is
\* accepted iff n >= m, exclusiveMinimum iff n > m, maximum iff n <= m and
\* exclusiveMaximum iff n < m; a violated bound emits its diagnostic and
\* makes validateNumber return false, a satisfied bound emits nothing.
C1_NumericBounds ==
    NumberCall =>
      LET a == call.accept
          n == ParseFloat(call.v).n
          lo == BoundViolated(a.Minimum, n, GreaterEq)
          xlo == BoundViolated(a.ExclusiveMinimum, n, Greater)
          hi == BoundViolated(a.Maximum, n, LessEq)
          xhi == BoundViolated(a.ExclusiveMaximum, n, Less)
      IN /\ lo <=> BoundMsg(a.Minimum, "expected a number greater than or equal to ") \in Msgs
         /\ xlo <=> BoundMsg(a.ExclusiveMinimum, "expected a number greater than ") \in Msgs
         /\ hi <=> BoundMsg(a.Maximum, "expected a number less than or equal to") \in Msgs
         /\ xhi <=> BoundMsg(a.ExclusiveMaximum, "expected a number less than ") \in Msgs
         /\ (lo \/ xlo \/ hi \/ xhi) => ~result.ok

SchemaCall == pc = "done" /\ call.op = "validateSchemaType"

\* A call that reaches validateSchemaObject: both schemas are object-typed.
ObjectSchemaCall ==
    /\ SchemaCall
    /\ ~AlwaysLike(call.accept) /\ ~IsNever(call.accept) /\ ~AlwaysLike(call.x)
    /\ TypeOf(call.x) = "object" /\ TypeOf(call.accept) = "object"

ReqSet(s) == {s.Required[i] : i \in 1..Len(s.Required)}

\* accept requires a key that x does not.
RequiredGap(x, accept) == \E i \in 1..Len(accept.Required) : accept.Required[i] \notin ReqSet(x)

\* A key of accept.dependentRequired is required in x and one of its
\* dependents is not.
DependentGap(x, accept) ==
    \E K \in DOMAIN accept.DependentRequired :
       /\ K \in ReqSet(x)
       /\ \E i \in 1..Len(accept.DependentRequired[K]) :
            accept.DependentRequired[K][i] \notin ReqSet(x)

\* The forms of the "missing required property" message at a top-level
\* location: bare, or prefixed with the key's path.
MissingPropertyMsgs ==
    {"missing required property"}
    \cup {joinKey("", k) \o ": missing required property" : k \in {"a", "b"}}

RequiredListsEnforced ==
    /\ RequiredGap(call.x, call.accept)
         => ~result.ok /\ Msgs \cap MissingPropertyMsgs # {}
    /\ DependentGap(call.x, call.accept) => ~result.ok

\* C2 as stated: whenever x constrains additionalProperties to never,
\* validateSchemaObject fails, reporting a missing required property, if
\* accept requires a key x does not, and fails if a key of
\* accept.dependentRequired is required in x while a dependent is not.
C2_ClosedInputAsStated ==
    (ObjectSchemaCall /\ call.x.AdditionalProperties.k # "nil"
       /\ IsNever(call.x.AdditionalProperties))
      => RequiredListsEnforced

\* C2 as amended: the required lists are compared whenever x has no
\* additionalProperties clause (the field is absent).
C2_AbsentInputRequired ==
    (ObjectSchemaCall /\ call.x.AdditionalProperties.k = "nil") => RequiredListsEnforced

\* A call on an input without additionalProperties that fails only on a
\* dependentRequired list.
C2_Witness ==
    /\ ObjectSchemaCall
    /\ call.x.AdditionalProperties.k = "nil"
    /\ DependentGap(call.x, call.accept)
    /\ ~RequiredGap(call.x, call.accept)
    /\ ~result.ok

\* accept.additionalProperties admits x.additionalProperties.
AdditionalAdmitted ==
    validateSchemaType(call.x.AdditionalProperties, call.accept.AdditionalProperties,
                       call.loc, call.ord).ok

\* C3 as stated: whenever x allows additional properties (the clause is
\* absent, or any schema other than never), validateSchemaObject succeeds
\* only if accept.additionalProperties admits x.additionalProperties.
C3_OpenInputAsStated ==
    (ObjectSchemaCall
       /\ (call.x.AdditionalProperties.k = "nil" \/ ~IsNever(call.x.AdditionalProperties))
       /\ result.ok)
      => AdditionalAdmitted

\* C3 as amended: the same, whenever x's additionalProperties clause is
\* present and is not never.
C3_PresentAdditionalAdmitted ==
    (ObjectSchemaCall
       /\ call.x.AdditionalProperties.k # "nil" /\ ~IsNever(call.x.AdditionalProperties)
       /\ result.ok)
      => AdditionalAdmitted

\* A call that fails only because accept.additionalProperties rejects the
\* additionalProperties x declares.
C3_Witness ==
    /\ ObjectSchemaCall
    /\ call.x.AdditionalProperties.k # "nil" /\ ~IsNever(call.x.AdditionalProperties)
    /\ DOMAIN call.x.Properties = {}
    /\ ~AdditionalAdmitted
    /\ ~result.ok

ValueCall == pc = "done" /\ call.op = "validateValue"

\* C4: for every value, known or unknown, validateElement returns true
\* when accept is the always schema and false when it is the never schema,
\* and in both cases no later test runs: nothing is reported.
C4_AlwaysNeverFirst ==
    ValueCall =>
      /\ AlwaysLike(call.accept) => result = Ok
      /\ (~AlwaysLike(call.accept) /\ IsNever(call.accept)) => result = Fail

\* An unknown value whose declared schema is always, rejected by never.
C4_Witness ==
    /\ ValueCall
    /\ call.v.unknown /\ call.v.schema = AlwaysSchema
    /\ call.accept = NeverSchema
    /\ result = Fail

\* An unknown value checked against a schema that is neither always nor
\* never.
UnknownCall ==
    /\ ValueCall
    /\ call.v.unknown
    /\ ~AlwaysLike(call.accept) /\ ~IsNever(call.accept)

\* The schema-versus-schema result on the value's declared schema.
SchemaFallback ==
    validateSchemaType(call.v.schema, call.accept, validationLoc(call.v.def), call.ord)

\* C5 as stated: for every unknown value and every schema that is neither
\* always nor never, validateElement returns exactly the result of
\* validateSchemaType on the value's declared schema.
C5_UnknownFallbackAsStated == UnknownCall => result = SchemaFallback

\* C5 as amended: the same, for every such schema that compiles.
C5_UnknownFallbackCompiled ==
    (UnknownCall /\ ~CompileFails(call.accept)) => result = SchemaFallback

\* An unknown string-schema value whose representation breaks the const of
\* accept, and which accept's schema check admits all the same.
C5_Witness ==
    /\ UnknownCall
    /\ call.v.repr = StrR("b") /\ call.v.schema = Str
    /\ call.accept = [Str EXCEPT !.Const = <<StrR("a")>>]
    /\ result = Ok

\* A known object value checked against an object-typed schema.
ObjectValueCall ==
    /\ ValueCall
    /\ ~call.v.unknown /\ call.v.repr.t = "object"
    /\ ~AlwaysLike(call.accept) /\ ~IsNever(call.accept) /\ ~CompileFails(call.accept)
    /\ TypeOf(call.accept) = "object"

\* A key accept requires is absent from the value, or a key of
\* accept.dependentRequired is present and one of its dependents absent.
KeyMissing(v, accept) ==
    LET present == DOMAIN v.repr.props IN
    \/ \E i \in 1..Len(accept.Required) : accept.Required[i] \notin present
    \/ \E K \in DOMAIN accept.DependentRequired :
         /\ K \in present
         /\ \E i \in 1..Len(accept.DependentRequired[K]) :
              accept.DependentRequired[K][i] \notin present

\* The "missing required properties" messages over the keys of the model.
MissingPropertiesMsgs ==
    {"missing required properties: " \o JoinStrings(ks, ", ") :
        ks \in SeqsUpTo({"a", "b"}, 4) \ {<<>>}}

\* The diagnostics of the call that report missing required properties.
MissingReports ==
    {i \in 1..Len(result.diags) : result.diags[i].msg \in MissingPropertiesMsgs}

\* C7: validateObject fails and emits one "missing required properties"
\* diagnostic, at the object's own location, whenever a required key, or a
\* dependent of a present key, is absent from the value; otherwise that
\* diagnostic is not emitted.
C7_RequiredKeys ==
    ObjectValueCall =>
      IF KeyMissing(call.v, call.accept)
      THEN /\ ~result.ok
           /\ Cardinality(MissingReports) = 1
           /\ \A i \in MissingReports : result.diags[i].at = call.v.def
      ELSE MissingReports = {}

\* An object that has every required key and lacks only the dependent of a
\* key it has.
C7_Witness ==
    /\ ObjectValueCall
    /\ KeyMissing(call.v, call.accept)
    /\ \A i \in 1..Len(call.accept.Required) :
         call.accept.Required[i] \in DOMAIN call.v.repr.props
    /\ ~result.ok
    /\ Cardinality(MissingReports) = 1

\* The type diagnostic of a schema-versus-schema call, at its location.
SchemaTypeDiag ==
    Diag(call.loc, "expected " \o TypeOf(call.accept) \o ", got " \o TypeOf(call.x))

\* C8: validateSchemaType returns true when accept is always, whatever x
\* is; false when accept is never, whatever x is; true when x is always and
\* accept is not never; and otherwise false with a type diagnostic unless
\* x.type equals accept.type.
C8_TopLevelRules ==
    SchemaCall =>
      IF AlwaysLike(call.accept) THEN result = Ok
      ELSE IF IsNever(call.accept) THEN result = Fail
      ELSE IF AlwaysLike(call.x) THEN result = Ok
      ELSE TypeOf(call.x) # TypeOf(call.accept)
             => result = [ok |-> FALSE, diags |-> <<SchemaTypeDiag>>]

\* The always schema against the never schema.
C8_Witness ==
    /\ SchemaCall
    /\ call.x = AlwaysSchema /\ call.accept = NeverSchema
    /\ result = Fail

\* A call that reaches validateSchemaArray: both schemas are array-typed.
ArraySchemaCall ==
    /\ SchemaCall
    /\ ~AlwaysLike(call.accept) /\ ~IsNever(call.accept) /\ ~AlwaysLike(call.x)
    /\ TypeOf(call.x) = "array" /\ TypeOf(call.accept) = "array"

\* The positions either prefixItems list has, from 0.
Positions ==
    LET lx == Len(call.x.PrefixItems)
        la == Len(call.accept.PrefixItems)
    IN 0..((IF lx > la THEN lx ELSE la) - 1)

\* The check of position i: pairwise where both lists have an entry, else
\* the surplus entry against the other side's items.
PositionResult(i) ==
    LET xp == call.x.PrefixItems
        ap == call.accept.PrefixItems
        xs == IF i < Len(xp) THEN xp[i + 1] ELSE call.x.Items
        as == IF i < Len(ap) THEN ap[i + 1] ELSE call.accept.Items
    IN validateSchemaType(xs, as, index(call.loc, i), call.ord)

\* The tail comparison: accept.items against x.items.
TailResult == validateSchemaType(call.x.Items, call.accept.Items, call.loc, call.ord)

\* x.items is present and is not never.
TailPresent == call.x.Items # NilSchema /\ call.x.Items # NeverSchema

RECURSIVE PositionDiags(_)
PositionDiags(i) ==
    IF i \notin Positions THEN <<>> ELSE PositionResult(i).diags \o PositionDiags(i + 1)

KnownCall ==
    /\ ValueCall
    /\ ~call.v.unknown
    /\ ~AlwaysLike(call.accept) /\ ~IsNever(call.accept) /\ ~CompileFails(call.accept)

\* The schema type name of a representation.
TypeName(r) == IF r.t = "bool" THEN "boolean" ELSE r.t

\* The clauses of accept that a known scalar value violates, each as the
\* message its diagnostic carries.
ViolatedScalarClauses(v, a) ==
    LET r == v.repr
        n == ParseFloat(r.lex).n
        typeOk == TypeName(r) = a.Type
    IN {m \in {IF Len(a.Const) = 1 /\ r # a.Const[1]
               THEN "expected " \o jsonRepr(a.Const[1]) ELSE "",
               IF Len(a.Enum) > 0 /\ \A i \in 1..Len(a.Enum) : r # a.Enum[i]
               THEN IF Len(a.Enum) = 1 THEN "expected " \o jsonRepr(a.Enum[1])
                    ELSE "expected one of " \o jsonRepr(ArrR(a.Enum))
               ELSE "",
               IF ~typeOk THEN "expected " \o a.Type \o ", got " \o TypeName(r) ELSE "",
               IF typeOk /\ r.t = "number" /\ BoundViolated(a.Minimum, n, GreaterEq)
               THEN BoundMsg(a.Minimum, "expected a number greater than or equal to ") ELSE "",
               IF typeOk /\ r.t = "number" /\ BoundViolated(a.ExclusiveMinimum, n, Greater)
               THEN BoundMsg(a.ExclusiveMinimum, "expected a number greater than ") ELSE "",
               IF typeOk /\ r.t = "number" /\ BoundViolated(a.Maximum, n, LessEq)
               THEN BoundMsg(a.Maximum, "expected a number less than or equal to") ELSE "",
               IF typeOk /\ r.t = "number" /\ BoundViolated(a.ExclusiveMaximum, n, Less)
               THEN BoundMsg(a.ExclusiveMaximum, "expected a number less than ") ELSE "",
               IF typeOk /\ r.t = "string" /\ Len(a.MinLength) = 1 /\ Len(r.s) < a.MinLength[1]
               THEN BoundMsg(a.MinLength, "expected a string of at least length ") ELSE "",
               IF typeOk /\ r.t = "string" /\ Len(a.MaxLength) = 1 /\ Len(r.s) > a.MaxLength[1]
               THEN BoundMsg(a.MaxLength, "expected a string of at most length ") ELSE "",
               IF typeOk /\ r.t = "string" /\ a.Pattern = <<PatternA>> /\ r.s \notin {"a", "ab"}
               THEN "string must match the pattern \"" \o PatternA \o "\"" ELSE ""} : m # ""}

\* The element or property checks of a known array or object value, as
\* <<result, is the clause violated>> per component.
ComponentResults(v, a, ord) ==
    IF v.repr.t = "array"
    THEN {validateValue(v.repr.elems[i],
                        IF i <= Len(a.PrefixItems) THEN a.PrefixItems[i] ELSE a.Items,
                        validationLoc(v.def), ord) : i \in 1..Len(v.repr.elems)}
    ELSE {validateValue(v.repr.props[k],
                        IF k \in DOMAIN a.Properties THEN a.Properties[k]
                        ELSE a.AdditionalProperties,
                        validationLoc(v.def), ord) : k \in DOMAIN v.repr.props}

\* The clauses of accept's own level that a known array or object value
\* violates, each as the message its diagnostic carries.
ViolatedContainerClauses(v, a) ==
    LET size == IF v.repr.t = "array" THEN Len(v.repr.elems)
                ELSE Cardinality(DOMAIN v.repr.props)
        lo == IF v.repr.t = "array" THEN a.MinItems ELSE a.MinProperties
        hi == IF v.repr.t = "array" THEN a.MaxItems ELSE a.MaxProperties
        what == IF v.repr.t = "array" THEN " items" ELSE " properties"
        kind == IF v.repr.t = "array" THEN "expected an array with at "
                ELSE "expected an object with at "
    IN {m \in {IF Len(lo) = 1 /\ size < lo[1]
               THEN kind \o "least " \o ToString(lo[1]) \o what ELSE "",
               IF Len(hi) = 1 /\ size > hi[1]
               THEN kind \o "most " \o ToString(hi[1]) \o what ELSE ""} : m # ""}

\* C6: validation does not short-circuit.  For a known value and a schema
\* that is neither always nor never, the const, enum and type tests each
\* run whatever the others find; every type-specific clause of the matching
\* type is checked even after an earlier one failed; each violated clause
\* emits its own diagnostic; and the result is true iff no clause failed.
C6_NoShortCircuit ==
    KnownCall =>
      LET v == call.v
          a == call.accept
          diagSet == {result.diags[i] : i \in 1..Len(result.diags)}
      IN IF v.repr.t \notin {"array", "object"}
         THEN /\ ViolatedScalarClauses(v, a) \subseteq Msgs
              /\ result.ok <=> ViolatedScalarClauses(v, a) = {}
         ELSE IF TypeName(v.repr) # a.Type
         THEN ~result.ok /\ "expected " \o a.Type \o ", got " \o TypeName(v.repr) \in Msgs
         ELSE LET parts == ComponentResults(v, a, call.ord)
                  missing == v.repr.t = "object" /\ KeyMissing(v, a)
              IN /\ ViolatedContainerClauses(v, a) \subseteq Msgs
                 /\ \A p \in parts : \A i \in 1..Len(p.diags) : p.diags[i] \in diagSet
                 /\ missing => MissingReports # {}
                 /\ result.ok <=> /\ ViolatedContainerClauses(v, a) = {}
                                  /\ \A p \in parts : p.ok
                                  /\ ~missing

\* A known array or object defined by a symbol, checked against a schema of
\* its type.
NonLiteralCall ==
    /\ KnownCall
    /\ call.v.def = "sym"
    /\ call.v.repr.t \in {"array", "object"}
    /\ TypeName(call.v.repr) = call.accept.Type

\* C10: a violation found in element i or property k of a value whose
\* defining expression is not a list or object literal is reported at that
\* defining expression, its message prefixed with the component's path.
C10_NonLiteralBlame ==
    NonLiteralCall =>
      LET v == call.v
          a == call.accept
          diagSet == {result.diags[i] : i \in 1..Len(result.diags)}
          Blamed(path, r) ==
              \A j \in 1..Len(r.diags) :
                 [at |-> v.def, msg |-> path \o ": " \o r.diags[j].msg] \in diagSet
      IN IF v.repr.t = "array"
         THEN \A i \in 1..Len(v.repr.elems) :
                 Blamed("[" \o ToString(i - 1) \o "]",
                        validateValue(v.repr.elems[i],
                                      IF i <= Len(a.PrefixItems) THEN a.PrefixItems[i]
                                      ELSE a.Items,
                                      validationLoc(v.def), call.ord))
         ELSE \A k \in DOMAIN v.repr.props :
                 Blamed("." \o k,
                        validateValue(v.repr.props[k],
                                      IF k \in DOMAIN a.Properties THEN a.Properties[k]
                                      ELSE a.AdditionalProperties,
                                      validationLoc(v.def), call.ord))

DescendCall == pc = "done" /\ call.op = "descend"

\* Descent d from location l enters a child of a literal: l's expression is
\* a list literal and d an index in range, or an object literal that defines
\* d's key.
EntersLiteral(l, d) ==
    LET r == ExprRepr(l.x) IN
    \/ d.op = "index" /\ r.kind = "list" /\ d.i < Len(r.elements)
    \/ d.op = "property" /\ r.kind = "object" /\ d.k \in DOMAIN r.properties

\* The child that descent d enters.
ChildOf(l, d) ==
    LET r == ExprRepr(l.x) IN
    IF d.op = "index" THEN r.elements[d.i + 1] ELSE r.properties[d.k]

\* The path of descent d below path.
PathBelow(path, d) ==
    IF d.op = "index" THEN path \o "[" \o ToString(d.i) \o "]" ELSE joinKey(path, d.k)

\* C11: after any sequence of index / property descents from
\* validationLoc{x: e}, a descent into a list literal with the index in
\* range or into an object literal that defines the key yields the inner
\* child with prefix false and a path that does not carry the outer path;
\* every other descent keeps the expression, appends [i] or .k to the path
\* and sets prefix; validationErrorf reports at the location's expression
\* and prepends the path to the message iff prefix is set.
C11_BlameTransitions ==
    DescendCall =>
      LET locs == call.locs
          last == locs[Len(locs)]
      IN /\ locs[1] = [x |-> call.e, path |-> "", prefix |-> FALSE]
         /\ Len(locs) = Len(call.descents) + 1
         /\ \A j \in 1..Len(call.descents) :
              LET l == locs[j]
                  d == call.descents[j]
              IN IF EntersLiteral(l, d)
                 THEN locs[j + 1] = [x |-> ChildOf(l, d), path |-> PathBelow("", d),
                                     prefix |-> FALSE]
                 ELSE locs[j + 1] = [x |-> l.x, path |-> PathBelow(l.path, d),
                                     prefix |-> TRUE]
         /\ ~result.ok
         /\ result.diags =
              <<[at |-> last.x,
                 msg |-> IF last.prefix THEN last.path \o ": invalid" ELSE "invalid"]>>

\* A literal child is entered from a location that already has a path, a
\* later descent leaves the literals, and the error carries the path.
C11_Witness ==
    /\ DescendCall
    /\ Len(call.descents) = 3
    /\ EntersLiteral(call.locs[1], call.descents[1])
    /\ EntersLiteral(call.locs[2], call.descents[2])
    /\ call.locs[2].path # ""
    /\ ~EntersLiteral(call.locs[3], call.descents[3])
    /\ call.locs[4].prefix
    /\ result.diags[1].msg # "invalid"
ExportCall == pc = "done" /\ call.op = "export"

IsAccess(x) == x.repr.kind = "access"

\* The accessors of the chain of accesses that ends in x, in application
\* order, and the expression the chain starts from.
RECURSIVE ChainAccessors(_)
ChainAccessors(x) ==
    IF IsAccess(x.repr.receiver.def)
    THEN ChainAccessors(x.repr.receiver.def) \o <<x.repr.accessor>>
    ELSE <<x.repr.accessor>>

RECURSIVE ChainReceiver(_)
ChainReceiver(x) ==
    IF IsAccess(x.repr.receiver.def)
    THEN ChainReceiver(x.repr.receiver.def)
    ELSE x.repr.receiver.def

\* C12: the export of the outermost of a chain of n >= 1 access
\* expressions is a single record with exactly one access payload, whose
\* accessor list has the n accessors in application order (innermost
\* first) and whose receiver is the range of the innermost, non-access
\* receiver; there is no nested access record.
C12_AccessFlattened ==
    (ExportCall /\ IsAccess(call.x)) =>
      LET ex == result.ex
          chain == ChainAccessors(call.x)
      IN /\ Len(ex.Access) = 1
         /\ ex.Access[1].Accessors = [i \in 1..Len(chain) |-> exportAccessor(chain[i])]
         /\ ex.Access[1].Receiver = defRange(ChainReceiver(call.x), call.environment)
         /\ ex.Literal = <<>> /\ ex.Interpolate = <<>> /\ ex.Symbol = <<>>
         /\ ex.Builtin = <<>> /\ ex.List = <<>> /\ ex.Object = <<>>

\* A chain of three accesses with three different accessors is exported.
C12_Witness ==
    /\ ExportCall /\ IsAccess(call.x)
    /\ Len(ChainAccessors(call.x)) = 3
    /\ Cardinality({ChainAccessors(call.x)[i] : i \in 1..3}) = 3
    /\ Len(result.ex.Access[1].Accessors) = 3

\* C13: the exported record describes the expression it was produced from:
\* its Range is the expression's own source range, its Schema the
\* expression's schema, and its Base is present iff the expression has a
\* base and is then the export of the base's defining expression; for
\* every variant, an access whose receiver is an access included.
C13_ExportDescribesExpr ==
    ExportCall =>
      LET ex == result.ex
          x == call.x
      IN /\ ex.Range = defRange(x, call.environment)
         /\ ex.Schema = x.schema
         /\ Len(ex.Base) = Len(x.base)
         /\ Len(x.base) = 1 => ex.Base[1] = export(x.base[1].def, call.environment)
\* C14: a failed validation is never silent: whenever validateValue or
\* validateSchemaType returns false, the call has emitted at least one
\* diagnostic, also when the target schema or one of its nested
\* prefixItems / items / properties / additionalProperties schemas is never.
C14_FailureNeverSilent ==
    (ValueCall \/ SchemaCall) => (~result.ok => Len(result.diags) >= 1)
====
